---- MODULE Spec2Model ----
(***************************************************************************)
(* Model of OpenAPIRouter (src/src/router.ts): the operation registry,     *)
(* the request normalizer, the path matcher and the parameter parser.      *)
(*                                                                         *)
(* A string is a sequence of one-character strings; the percent escapes    *)
(* "%20" and "%7C" of a query string are single elements of the sequence.  *)
(* Path templates and apiRoot are drawn from letters, "/" and {name}       *)
(* placeholders: regular-expression metacharacters other than the braces   *)
(* are outside the alphabet of the model.                                  *)
(***************************************************************************)
EXTENDS Integers, Sequences, FiniteSets, TLC

VARIABLES definition, apiRoot, req, reqIn, defIn, call, ret

vars == <<definition, apiRoot, req, reqIn, defIn, call, ret>>

(***************************************************************************)
(* Bounds of the model.                                                    *)
(***************************************************************************)
MaxPaths == 2        \* path items of a contract document (matcher)
MaxParams == 1       \* parameters declared at one level (parser)
MaxElems == 2        \* elements of a delimited query value (parser)
MaxRawLen == 4       \* characters of a raw request path (normalizer)

(***************************************************************************)
(* Strings.                                                                *)
(***************************************************************************)
RECURSIVE TrimLeft(_)
TrimLeft(s) ==
    IF s # <<>> /\ Head(s) = " " THEN TrimLeft(Tail(s)) ELSE s

RECURSIVE TrimRight(_)
TrimRight(s) ==
    IF s # <<>> /\ s[Len(s)] = " " THEN TrimRight(SubSeq(s, 1, Len(s) - 1)) ELSE s

\* String.prototype.trim
Trim(s) == TrimRight(TrimLeft(s))

\* index of the first c in s, 0 when there is none
RECURSIVE IndexFrom(_, _, _)
IndexFrom(s, c, i) ==
    IF i > Len(s) THEN 0
    ELSE IF s[i] = c THEN i
    ELSE IndexFrom(s, c, i + 1)

IndexOf(s, c) == IndexFrom(s, c, 1)

\* String.prototype.split(c): the pieces of s between the occurrences of c
RECURSIVE Split(_, _)
Split(s, c) ==
    LET i == IndexOf(s, c)
    IN  IF i = 0 THEN <<s>>
        ELSE <<SubSeq(s, 1, i - 1)>> \o Split(SubSeq(s, i + 1, Len(s)), c)

\* s.replace(/\/+$/, '')
RECURSIVE StripTrailingSlashes(_)
StripTrailingSlashes(s) ==
    IF s # <<>> /\ s[Len(s)] = "/"
    THEN StripTrailingSlashes(SubSeq(s, 1, Len(s) - 1))
    ELSE s

RECURSIVE StripLeadingSlashes(_)
StripLeadingSlashes(s) ==
    IF s # <<>> /\ Head(s) = "/" THEN StripLeadingSlashes(Tail(s)) ELSE s

\* s.replace(/^\/*/, '/')
LeadingSlash(s) == <<"/">> \o StripLeadingSlashes(s)

LowerChar(c) ==
    CASE c = "C" -> "c"
      [] c = "G" -> "g"
      [] c = "E" -> "e"
      [] c = "T" -> "t"
      [] c = "P" -> "p"
      [] c = "O" -> "o"
      [] c = "S" -> "s"
      [] OTHER -> c

\* String.prototype.toLowerCase
ToLowerCase(s) == [i \in 1..Len(s) |-> LowerChar(s[i])]

\* String.prototype.startsWith
StartsWith(s, p) == Len(p) <= Len(s) /\ SubSeq(s, 1, Len(p)) = p

\* s.replace(/x/g, ',') for each x of from
ReplaceAll(s, from) == [i \in 1..Len(s) |-> IF s[i] \in from THEN "," ELSE s[i]]

\* a string that may be undefined
Undefined == [defined |-> FALSE, s |-> <<>>]
Defined(s) == [defined |-> TRUE, s |-> s]

(***************************************************************************)
(* Request normalizer.                                                     *)
(***************************************************************************)
normalizedPathOf(path) ==
    LeadingSlash(StripTrailingSlashes(Split(Trim(path), "?")[1]))

normalizedMethodOf(method) == ToLowerCase(Trim(method))

normalizeRequest(r) ==
    [r EXCEPT !.path = normalizedPathOf(r.path),
              !.method = normalizedMethodOf(r.method)]

\* path.replace(new RegExp(`^${apiRoot}/?`), '/')
normalizePath(root, path) ==
    IF StartsWith(path, root)
    THEN LET rest == SubSeq(path, Len(root) + 1, Len(path))
         IN  <<"/">> \o (IF rest # <<>> /\ Head(rest) = "/" THEN Tail(rest) ELSE rest)
    ELSE path

(***************************************************************************)
(* Operation registry.                                                     *)
(***************************************************************************)
GET == <<"g", "e", "t">>
PUT == <<"p", "u", "t">>
POST == <<"p", "o", "s", "t">>
DELETE == <<"d", "e", "l", "e", "t", "e">>
OPTIONS == <<"o", "p", "t", "i", "o", "n", "s">>
HEAD == <<"h", "e", "a", "d">>
PATCH == <<"p", "a", "t", "c", "h">>
TRACE == <<"t", "r", "a", "c", "e">>

\* the keys _.pick keeps, in the order it keeps them
MethodOrder == <<GET, PUT, POST, DELETE, OPTIONS, HEAD, PATCH, TRACE>>

\* op.security || this.definition.security || []
effectiveSecurity(def, op) ==
    IF op.security.present THEN op.security.val
    ELSE IF def.security.present THEN def.security.val
    ELSE <<>>

\* the descriptor of one method of one path item
descriptor(def, item, method) ==
    LET op == item.ops[method]
    IN  [path |-> item.path,
         method |-> method,
         operationId |-> op.operationId,
         parameters |-> op.parameters \o item.parameters,
         security |-> effectiveSecurity(def, op)]

\* the descriptors of one path item: _.pick keeps the declared methods
itemOperations(def, item) ==
    LET methods == SelectSeq(MethodOrder, LAMBDA m : m \in DOMAIN item.ops)
    IN  [i \in 1..Len(methods) |-> descriptor(def, item, methods[i])]

RECURSIVE flatMapItems(_, _)
flatMapItems(def, items) ==
    IF items = <<>> THEN <<>>
    ELSE itemOperations(def, Head(items)) \o flatMapItems(def, Tail(items))

getOperations(def) == flatMapItems(def, def.paths)

\* _.find(this.getOperations(), { operationId })
getOperation(def, operationId) ==
    LET found == SelectSeq(getOperations(def), LAMBDA o : o.operationId = operationId)
    IN  IF found = <<>> THEN [kind |-> "undefined"]
        ELSE [kind |-> "operation", op |-> Head(found)]

(***************************************************************************)
(* Path matcher.                                                           *)
(***************************************************************************)
Wildcard == "[^/]+"

\* path.replace(/\{.*?\}/g, '[^/]+'): each { up to the next } becomes a wildcard
RECURSIVE pathPattern(_)
pathPattern(path) ==
    IF path = <<>> THEN <<>>
    ELSE LET close == IndexOf(Tail(path), "}")
         IN  IF Head(path) = "{" /\ close # 0
             THEN <<Wildcard>> \o pathPattern(SubSeq(Tail(path), close + 1, Len(path) - 1))
             ELSE <<Head(path)>> \o pathPattern(Tail(path))

\* does the anchored pattern accept the whole of s
RECURSIVE patternAccepts(_, _)
patternAccepts(pat, s) ==
    IF pat = <<>> THEN s = <<>>
    ELSE IF Head(pat) = Wildcard
    THEN \E k \in 1..Len(s) :
            /\ \A i \in 1..k : s[i] # "/"
            /\ patternAccepts(Tail(pat), SubSeq(s, k + 1, Len(s)))
    ELSE s # <<>> /\ Head(s) = Head(pat) /\ patternAccepts(Tail(pat), Tail(s))

templateMatches(path, normalizedPath) ==
    patternAccepts(pathPattern(path), normalizedPath)

\* op.path.replace(RegExp(/\{.*?\}/g), '').length
specificity(path) ==
    Len(SelectSeq(pathPattern(path), LAMBDA t : t # Wildcard))

\* insert o after every element whose score is at least its own
RECURSIVE insertByScore(_, _)
insertByScore(sorted, o) ==
    IF sorted = <<>> THEN <<o>>
    ELSE IF specificity(Head(sorted).path) >= specificity(o.path)
    THEN <<Head(sorted)>> \o insertByScore(Tail(sorted), o)
    ELSE <<o>> \o sorted

\* mutant: the matches are left in registry order
orderByNothing(ops) == ops

\* _.orderBy(ops, score, 'desc'): a stable sort, highest score first
RECURSIVE orderBySpecificity(_)
orderBySpecificity(ops) ==
    IF ops = <<>> THEN <<>>
    ELSE insertByScore(orderBySpecificity(SubSeq(ops, 1, Len(ops) - 1)), ops[Len(ops)])

NotFound == "404-notFound: no route matches request"
MethodNotAllowed == "405-methodNotAllowed: this method is not registered for the route"

\* mutant: the strict flag is ignored and the failure is always raised
FailAlways(strict, error) == [kind |-> "throw", error |-> error]

Fail(strict, error) ==
    IF strict THEN [kind |-> "throw", error |-> error] ELSE [kind |-> "undefined"]

exactPathMatches(def, normalizedPath) ==
    SelectSeq(getOperations(def), LAMBDA o : o.path = normalizedPath)

\* mutant: only the operations of the request's own path count as path matches
templatePathMatchesExactOnly(def, normalizedPath) ==
    SelectSeq(getOperations(def), LAMBDA o : o.path = normalizedPath)

templatePathMatches(def, normalizedPath) ==
    SelectSeq(getOperations(def), LAMBDA o : templateMatches(o.path, normalizedPath))

\* lines 88-97: the path compared with the templates; a request that fails the
\* apiRoot check returns before it is computed
comparisonPath(root, r) ==
    LET n == normalizeRequest(r)
    IN  IF StartsWith(n.path, root) THEN Defined(normalizePath(root, n.path))
        ELSE Undefined

\* mutant: no exact phase, every request goes through the template phase
matchOperationNoExactPhase(def, root, r, strict) ==
    LET n == normalizeRequest(r)
        normalizedPath == normalizePath(root, n.path)
        templ == templatePathMatches(def, normalizedPath)
        match == SelectSeq(orderBySpecificity(templ), LAMBDA o : o.method = n.method)
    IN  IF ~StartsWith(n.path, root) THEN Fail(strict, NotFound)
        ELSE IF templ = <<>> THEN Fail(strict, NotFound)
        ELSE IF match = <<>> THEN Fail(strict, MethodNotAllowed)
        ELSE [kind |-> "operation", op |-> Head(match)]

matchOperation(def, root, r, strict) ==
    LET n == normalizeRequest(r)
        normalizedPath == normalizePath(root, n.path)
        exact == SelectSeq(exactPathMatches(def, normalizedPath),
                           LAMBDA o : o.method = n.method)
        templ == templatePathMatches(def, normalizedPath)
        match == SelectSeq(orderBySpecificity(templ), LAMBDA o : o.method = n.method)
    IN  IF ~StartsWith(n.path, root) THEN Fail(strict, NotFound)
        ELSE IF exact # <<>> THEN [kind |-> "operation", op |-> Head(exact)]
        ELSE IF templ = <<>> THEN Fail(strict, NotFound)
        ELSE IF match = <<>> THEN Fail(strict, MethodNotAllowed)
        ELSE [kind |-> "operation", op |-> Head(match)]

(***************************************************************************)
(* Parameter parser.                                                       *)
(***************************************************************************)
\* a query, header or parameter value: a string or an array of strings
Str(s) == [t |-> "string", s |-> s, a |-> <<>>]
Arr(a) == [t |-> "array", s |-> <<>>, a |-> a]

EmptyObject == [k \in {} |-> Str(<<>>)]

\* the object o with o[k] = v
Put(o, k, v) == [x \in DOMAIN o \cup {k} |-> IF x = k THEN v ELSE o[x]]

\* decodeURIComponent on the escapes of the model
DecodeChar(c) ==
    CASE c = "%20" -> " "
      [] c = "%7C" -> "|"
      [] OTHER -> c

Decode(s) == [i \in 1..Len(s) |-> DecodeChar(s[i])]

AsArray(v) == IF v.t = "array" THEN v.a ELSE <<v.s>>

\* qs: the value of one key=value part, split at commas under { comma: true }
qsValue(raw, comma) ==
    IF comma /\ IndexOf(raw, ",") # 0
    THEN LET pieces == Split(raw, ",")
         IN  Arr([i \in 1..Len(pieces) |-> Decode(pieces[i])])
    ELSE Str(Decode(raw))

\* qs: the parts of a query string, left to right; a repeated key collects an array
RECURSIVE qsParts(_, _, _)
qsParts(parts, comma, obj) ==
    IF parts = <<>> THEN obj
    ELSE LET part == Head(parts)
             eq == IndexOf(part, "=")
             key == Decode(IF eq = 0 THEN part ELSE SubSeq(part, 1, eq - 1))
             val == IF eq = 0 THEN Str(<<>>)
                    ELSE qsValue(SubSeq(part, eq + 1, Len(part)), comma)
             next == IF part = <<>> THEN obj
                     ELSE IF key \in DOMAIN obj
                     THEN Put(obj, key, Arr(AsArray(obj[key]) \o AsArray(val)))
                     ELSE Put(obj, key, val)
         IN  qsParts(Tail(parts), comma, next)

\* qs.parse(queryString, { comma })
parseQuery(queryString, comma) ==
    IF ~queryString.defined \/ queryString.s = <<>> THEN EmptyObject
    ELSE qsParts(Split(queryString.s, "&"), comma, EmptyObject)

\* req.path.split('?')[1]
queryStringOf(path) ==
    LET pieces == Split(path, "?")
    IN  IF Len(pieces) >= 2 THEN Defined(pieces[2]) ELSE Undefined

\* JSON.parse on the bodies of the model
JsonParse(text) ==
    CASE text = "{\"x\":1}" -> [ok |-> TRUE, value |-> [kind |-> "object", text |-> "x=1"]]
      [] OTHER -> [ok |-> FALSE, value |-> [kind |-> "undefined", text |-> ""]]

parseBody(body) ==
    IF body.kind = "string" /\ body.text # "" /\ JsonParse(body.text).ok
    THEN JsonParse(body.text).value
    ELSE body

\* _.mapKeys(req.headers, (val, header) => header.toLowerCase())
RECURSIVE mapKeysLower(_, _)
mapKeysLower(headers, obj) ==
    IF headers = <<>> THEN obj
    ELSE mapKeysLower(Tail(headers),
                      Put(obj, ToLowerCase(Head(headers).name), Head(headers).value))

\* Array.prototype.join('; ')
RECURSIVE Join(_)
Join(a) ==
    IF a = <<>> THEN <<>>
    ELSE IF Len(a) = 1 THEN a[1]
    ELSE a[1] \o <<";", " ">> \o Join(Tail(a))

\* cookie.parse: the first pair of a name wins, a part without "=" is skipped
RECURSIVE cookiePairs(_, _)
cookiePairs(parts, obj) ==
    IF parts = <<>> THEN obj
    ELSE LET part == Head(parts)
             eq == IndexOf(part, "=")
             key == Trim(SubSeq(part, 1, eq - 1))
             val == Trim(SubSeq(part, eq + 1, Len(part)))
         IN  cookiePairs(Tail(parts),
                         IF eq = 0 \/ key \in DOMAIN obj THEN obj ELSE Put(obj, key, Str(val)))

COOKIE == <<"c", "o", "o", "k", "i", "e">>

\* cookie.parse(_.flatten([cookieHeader]).join('; '))
parseCookies(headers) ==
    IF COOKIE \in DOMAIN headers
    THEN cookiePairs(Split(Join(AsArray(headers[COOKIE])), ";"), EmptyObject)
    ELSE EmptyObject

IsPlaceholder(seg) == Len(seg) >= 2 /\ Head(seg) = "{" /\ seg[Len(seg)] = "}"

\* bath(template).params(path): each {name} segment captures the segment at its place
pathParams(template, path) ==
    LET ts == Split(template, "/")
        ps == Split(path, "/")
        names == {i \in 1..Len(ts) : IsPlaceholder(ts[i])}
    IN  IF /\ Len(ts) = Len(ps)
           /\ \A i \in 1..Len(ts) :
                IF i \in names THEN ps[i] # <<>> ELSE ts[i] = ps[i]
        THEN [n \in {SubSeq(ts[i], 2, Len(ts[i]) - 1) : i \in names} |->
                Str(ps[CHOOSE i \in names : SubSeq(ts[i], 2, Len(ts[i]) - 1) = n])]
        ELSE EmptyObject

\* _.find(operation.parameters, { name, in: 'query' })
findQueryParameter(parameters, name) ==
    SelectSeq(parameters, LAMBDA p : p.name = name /\ p.in = "query")

\* the query string with the delimiter of the style rewritten to commas
commaQueryString(queryString, style) ==
    CASE style = "spaceDelimited" -> ReplaceAll(queryString, {" ", "%20"})
      [] style = "pipeDelimited" -> ReplaceAll(queryString, {"|", "%7C"})
      [] OTHER -> queryString

Truthy(v) == v.t = "array" \/ v.s # <<>>

\* lines 268-287: re-decode the value of each non-exploded query parameter
redecodeNonExploded(query, queryString, parameters) ==
    [k \in DOMAIN query |->
        LET found == findQueryParameter(parameters, k)
        IN  IF Truthy(query[k]) /\ found # <<>> /\ Head(found).explode = FALSE
            THEN parseQuery(Defined(commaQueryString(queryString, Head(found).style)),
                            TRUE)[k]
            ELSE query[k]]

delimiterOf(p) ==
    IF p.style = "spaceDelimited" THEN " "
    ELSE IF p.style = "pipeDelimited" THEN "|"
    ELSE ","

IsString(query, name) == name \in DOMAIN query /\ query[name].t = "string"

\* mutant: the location of the declaration is not looked at
unsplitParametersAnyLocation(query, parameters) ==
    SelectSeq(SelectSeq(parameters, LAMBDA p : p.explode = FALSE),
              LAMBDA p : IsString(query, p.name))

\* lines 291-295: the declarations the forEach visits, filtered before it starts
unsplitParameters(query, parameters) ==
    SelectSeq(SelectSeq(parameters, LAMBDA p : p.explode = FALSE /\ p.in = "query"),
              LAMBDA p : IsString(query, p.name))

\* lines 296-300: query[p.name] = query[p.name].split(d), in place; an array has
\* no split method, so a second declaration of the same name throws
RECURSIVE splitEach(_, _)
splitEach(ps, query) ==
    IF ps = <<>> THEN [query |-> query, threw |-> FALSE]
    ELSE LET p == Head(ps)
         IN  IF query[p.name].t = "string"
             THEN splitEach(Tail(ps),
                            [query EXCEPT ![p.name] = Arr(Split(query[p.name].s, delimiterOf(p)))])
             ELSE [query |-> query, threw |-> TRUE]

splitNonExploded(query, parameters) ==
    splitEach(unsplitParameters(query, parameters), query)

NoOperation == [kind |-> "undefined"]

\* the query object parseRequest ends with, and whether the call threw
decodeQuery(r, operation) ==
    LET queryString == queryStringOf(r.path)
        query == IF r.query.kind = "object" THEN r.query.obj
                 ELSE parseQuery(queryString, FALSE)
        parameters == operation.op.parameters
        first == IF r.query.kind # "object" /\ queryString.defined /\ queryString.s # <<>>
                 THEN redecodeNonExploded(query, queryString.s, parameters)
                 ELSE query
    IN  IF operation.kind = "operation"
        THEN splitNonExploded(first, parameters)
        ELSE [query |-> query, threw |-> FALSE]

parseRequest(root, r, operation) ==
    LET headers == mapKeysLower(r.headers, EmptyObject)
        decoded == decodeQuery(r, operation)
        n == normalizeRequest(r)
    IN  IF decoded.threw
        THEN [kind |-> "throw", error |-> "TypeError"]
        ELSE [kind |-> "parsed",
              parsed |-> [method |-> n.method,
                          path |-> n.path,
                          body |-> r.body,
                          params |-> IF operation.kind = "operation"
                                     THEN pathParams(operation.op.path,
                                                     normalizePath(root, n.path))
                                     ELSE EmptyObject,
                          headers |-> headers,
                          query |-> decoded.query,
                          cookies |-> parseCookies(headers),
                          requestBody |-> parseBody(r.body)]]

\* the caller's request after the call: a structured query is decoded in place
requestAfterParse(r, operation) ==
    IF r.query.kind = "object"
    THEN [r EXCEPT !.query.obj = decodeQuery(r, operation).query]
    ELSE r

(***************************************************************************)
(* Inputs: contract documents, constructor options and raw requests.       *)
(***************************************************************************)
\* new OpenAPIRouter({ definition, apiRoot }): opts.apiRoot || '/'
constructor(optsApiRoot) == IF optsApiRoot = <<>> THEN <<"/">> ELSE optsApiRoot

ApiRootOptions == {<<>>, <<"/", "a">>}

NoSecurity == [present |-> FALSE, val |-> <<>>]
Security(v) == [present |-> TRUE, val |-> v]

\* an operation object of a path item
OperationObject(method, parameters) ==
    [operationId |-> IF method = GET THEN "read" ELSE "write",
     parameters |-> parameters,
     security |-> IF method = GET THEN NoSecurity ELSE Security(<<"oauth">>)]

PathItem(path, methods, opParameters, parameters) ==
    [path |-> path,
     ops |-> [m \in methods |-> OperationObject(m, opParameters)],
     parameters |-> parameters]

Document(items) == [paths |-> items, security |-> Security(<<"apiKey">>)]

\* path templates: literal segments and {name} placeholders
Templates ==
    { <<"/">>,
      <<"/", "a">>,
      <<"/", "{", "a", "}">>,
      <<"/", "{", "b", "}">>,
      <<"/", "a", "/", "{", "a", "}">>,
      <<"/", "{", "a", "}", "/", "{", "b", "}">> }

MethodSets == {{GET}, {GET, POST}}

\* documents of n path items with distinct templates
DocumentsOf(n) ==
    { Document([i \in 1..n |-> PathItem(f[i][1], f[i][2], <<>>, <<>>)]) :
        f \in { g \in [1..n -> Templates \X MethodSets] :
                  \A i, j \in 1..n : i # j => g[i][1] # g[j][1] } }

MatchDocuments == UNION { DocumentsOf(n) : n \in 1..MaxPaths }

MatchPaths ==
    { <<"/">>,
      <<"/", "a">>,
      <<"a", "/">>,
      <<"/", "b">>,
      <<"/", "a", "a">>,
      <<"/", "{", "a", "}">>,
      <<"/", "a", "/", "a">>,
      <<"/", "a", "/", "b", "?", "a">>,
      <<"/", "a", "/", "{", "a", "}">>,
      <<"/", "a", "a", "/", "b">>,
      <<"/", "a", "/", "a", "/", "a">>,
      <<"/", "a", "/", "{", "a", "}", "/", "a">> }

MatchMethods == { <<"G", "E", "T">>, <<"p", "o", "s", "t", " ">> }

NoQuery == [kind |-> "undefined", str |-> <<>>, obj |-> EmptyObject]
StringQuery(s) == [kind |-> "string", str |-> s, obj |-> EmptyObject]
ObjectQuery(o) == [kind |-> "object", str |-> <<>>, obj |-> o]

NoBody == [kind |-> "undefined", text |-> ""]

Request(method, path, headers, query, body) ==
    [method |-> method, path |-> path, headers |-> headers, query |-> query, body |-> body]

MatchRequests ==
    { Request(m, p, <<>>, NoQuery, NoBody) : m \in MatchMethods, p \in MatchPaths }

(***************************************************************************)
(* The router and one caller: the constructor, then calls on the caller's  *)
(* request value.  defIn is the document the caller passed to the          *)
(* constructor, reqIn the request value as the caller passed it to the     *)
(* last call.                                                              *)
(***************************************************************************)
Construct(documents, rootOptions, requests) ==
    /\ definition \in documents
    /\ apiRoot \in { constructor(o) : o \in rootOptions }
    /\ req \in requests
    /\ reqIn = req
    /\ defIn = definition
    /\ call = [name |-> "constructor", strict |-> FALSE, operation |-> NoOperation]
    /\ ret = [kind |-> "none"]

MatchOperation(strict) ==
    /\ call' = [name |-> "matchOperation", strict |-> strict, operation |-> NoOperation]
    /\ ret' = matchOperation(definition, apiRoot, req, strict)
    /\ reqIn' = req
    /\ UNCHANGED <<definition, apiRoot, req, defIn>>

GetOperations ==
    /\ call' = [name |-> "getOperations", strict |-> FALSE, operation |-> NoOperation]
    /\ ret' = [kind |-> "operations", ops |-> getOperations(definition)]
    /\ reqIn' = req
    /\ UNCHANGED <<definition, apiRoot, req, defIn>>

GetOperation(operationId) ==
    /\ call' = [name |-> "getOperation", strict |-> FALSE, operation |-> NoOperation]
    /\ ret' = getOperation(definition, operationId)
    /\ reqIn' = req
    /\ UNCHANGED <<definition, apiRoot, req, defIn>>

NormalizeRequest ==
    /\ call' = [name |-> "normalizeRequest", strict |-> FALSE, operation |-> NoOperation]
    /\ ret' = [kind |-> "request", req |-> normalizeRequest(req)]
    /\ reqIn' = req
    /\ UNCHANGED <<definition, apiRoot, req, defIn>>

\* the caller passes the request normalizeRequest returned to normalizeRequest again
Renormalize ==
    /\ call.name = "normalizeRequest"
    /\ call' = [name |-> "renormalize", strict |-> FALSE, operation |-> NoOperation]
    /\ req' = ret.req
    /\ reqIn' = ret.req
    /\ ret' = [kind |-> "request", req |-> normalizeRequest(ret.req)]
    /\ UNCHANGED <<definition, apiRoot, defIn>>

\* parseRequest(req, operation): the caller's structured query is decoded in place
ParseRequest(operation) ==
    /\ call' = [name |-> "parseRequest", strict |-> FALSE, operation |-> operation]
    /\ ret' = parseRequest(apiRoot, req, operation)
    /\ req' = requestAfterParse(req, operation)
    /\ reqIn' = req
    /\ UNCHANGED <<definition, apiRoot, defIn>>

\* the operations a caller can pass to parseRequest: none, or a registered descriptor
OperationArguments ==
    {NoOperation} \cup
    {[kind |-> "operation", op |-> getOperations(definition)[i]] :
        i \in DOMAIN getOperations(definition)}

InitMatch == Construct(MatchDocuments, ApiRootOptions, MatchRequests)

NextMatch == \E strict \in BOOLEAN : MatchOperation(strict)

SpecMatch == InitMatch /\ [][NextMatch]_vars

(***************************************************************************)
(* Path matcher: claims C1-C4 and C10, under SpecMatch.                    *)
(***************************************************************************)
Operations == getOperations(definition)

Normalized == normalizeRequest(req)
Comparison == comparisonPath(apiRoot, req)

Matched == call.name = "matchOperation"
Returned(d) == ret = [kind |-> "operation", op |-> d]
Raised(error) == ret = [kind |-> "throw", error |-> error]
Absent == ret = [kind |-> "undefined"]

\* the positions of the descriptors whose path matches the comparison path cp,
\* literally or as a template
PathMatchesIn(ops, cp) ==
    {i \in DOMAIN ops :
        cp.defined /\ (ops[i].path = cp.s \/ templateMatches(ops[i].path, cp.s))}

\* the positions of the descriptors of the method whose template accepts cp
CandidatesIn(ops, cp, method) ==
    {i \in DOMAIN ops :
        /\ ops[i].method = method
        /\ cp.defined
        /\ templateMatches(ops[i].path, cp.s)}

\* position i has the greatest score among the candidates and is the first with it
MostSpecificIn(ops, candidates, i) ==
    \A j \in candidates :
        /\ specificity(ops[j].path) <= specificity(ops[i].path)
        /\ specificity(ops[j].path) = specificity(ops[i].path) => i <= j

\* C1: a request whose comparison path (the normalized, root-stripped path of line 97,
\* which a request that fails the apiRoot check does not have) is literally the path of
\* a registered descriptor and whose normalized method is its method gets that
\* descriptor, strict or not, whatever else is registered.
C1_ExactMatchWins ==
    Matched =>
        LET ops == Operations
            cp == Comparison
            method == Normalized.method
        IN  \A i \in DOMAIN ops :
                (cp.defined /\ cp.s = ops[i].path /\ method = ops[i].method)
                    => Returned(ops[i])

\* C1 witness: the exact descriptor is returned although a templated descriptor of the
\* same method, registered before it, accepts the same path.
C1_Witness ==
    /\ Matched
    /\ ret.kind = "operation"
    /\ LET ops == Operations
           cp == Comparison
       IN  /\ ret.op.path = cp.s
           /\ \E i \in CandidatesIn(ops, cp, ret.op.method) :
                 /\ ops[i].path # ret.op.path
                 /\ \A j \in DOMAIN ops : ops[j] = ret.op => i < j

\* C2 as stated: every returned descriptor has the request's method, accepts the
\* comparison path and is the most specific candidate, the first one among equals.
C2_AlwaysMostSpecific ==
    (Matched /\ ret.kind = "operation") =>
        LET ops == Operations
            candidates == CandidatesIn(ops, Comparison, Normalized.method)
        IN  \E i \in candidates :
                /\ ops[i] = ret.op
                /\ MostSpecificIn(ops, candidates, i)

\* C2 amended: every returned descriptor has the request's method; it is the
\* descriptor whose path is literally the comparison path when there is one with that
\* method, and otherwise it accepts the comparison path and is the most specific
\* candidate, the first one among equals.
C2_MostSpecificUnlessExact ==
    (Matched /\ ret.kind = "operation") =>
        LET ops == Operations
            cp == Comparison
            method == Normalized.method
            candidates == CandidatesIn(ops, cp, method)
            exact == {i \in DOMAIN ops :
                        cp.defined /\ ops[i].path = cp.s /\ ops[i].method = method}
        IN  /\ ret.op.method = method
            /\ IF exact # {}
               THEN \E i \in exact : ops[i] = ret.op
               ELSE \E i \in candidates :
                        /\ ops[i] = ret.op
                        /\ MostSpecificIn(ops, candidates, i)

\* C2 witness: the template phase returns a descriptor that a less specific candidate
\* precedes in the registry.
C2_Witness ==
    /\ Matched
    /\ ret.kind = "operation"
    /\ LET ops == Operations
           cp == Comparison
           candidates == CandidatesIn(ops, cp, Normalized.method)
       IN  /\ ret.op.path # cp.s
           /\ \E i, j \in candidates :
                 /\ ops[i] = ret.op
                 /\ j < i
                 /\ specificity(ops[j].path) < specificity(ops[i].path)

\* some registered path matches the comparison path, and no matching descriptor has
\* the request's method
PathMatchedMethodMissing ==
    LET ops == Operations
        matching == PathMatchesIn(ops, Comparison)
        method == Normalized.method
    IN  /\ matching # {}
        /\ \A i \in matching : ops[i].method # method

NoPathMatches ==
    LET ops == Operations
        path == Normalized.path
        stripped == normalizePath(apiRoot, path)
    IN  \/ ~StartsWith(path, apiRoot)
        \/ \A i \in DOMAIN ops :
              /\ ops[i].path # stripped
              /\ ~templateMatches(ops[i].path, stripped)

C10_SegmentBoundary ==
    (Matched /\ ret.kind = "operation" /\ apiRoot # <<"/">>) =>
        LET path == Normalized.path
        IN  \/ /\ path = apiRoot
               /\ templateMatches(ret.op.path, <<"/">>)
            \/ /\ StartsWith(path, apiRoot \o <<"/">>)
               /\ templateMatches(ret.op.path, SubSeq(path, Len(apiRoot) + 1, Len(path)))

(***************************************************************************)
(* Inputs of the normalizer: every raw path over "/", "a", " " and "?".    *)
(***************************************************************************)
StringsUpTo(alphabet, n) == UNION { [1..k -> alphabet] : k \in 0..n }

RawPaths == StringsUpTo({"/", "a", " ", "?"}, MaxRawLen)

RawMethods == { <<"G", "E", "T">>, <<" ", "P", "o", "s", "t", " ">> }

NormRequests ==
    { Request(m, p, <<>>, NoQuery, NoBody) : m \in RawMethods, p \in RawPaths }

InitNorm ==
    Construct({Document(<<PathItem(<<"/", "a">>, {GET}, <<>>, <<>>)>>)}, {<<>>}, NormRequests)

NextNorm == NormalizeRequest \/ Renormalize

SpecNorm == InitNorm /\ [][NextNorm]_vars

(***************************************************************************)
(* Inputs of the parser: one path item /{i} with parameters declared on    *)
(* the operation and on the path item, and requests that carry the query   *)
(* as a query string in the path or as a structured object.                *)
(***************************************************************************)
Parameter(name, in, style, explode) ==
    [name |-> name, in |-> in, style |-> style, explode |-> explode]

ParameterChoices ==
    { Parameter(<<"a">>, "query", "form", FALSE),
      Parameter(<<"a">>, "query", "form", TRUE),
      Parameter(<<"a">>, "query", "pipeDelimited", FALSE),
      Parameter(<<"a">>, "query", "spaceDelimited", FALSE),
      Parameter(<<"a">>, "header", "form", FALSE),
      Parameter(<<"b">>, "query", "pipeDelimited", FALSE) }

\* a parameter list holds no two parameters of the same name and location
ParameterLists(n) ==
    { l \in StringsUpTo(ParameterChoices, n) :
        \A i, j \in 1..Len(l) :
            i # j => (l[i].name # l[j].name \/ l[i].in # l[j].in) }

ParseDocuments ==
    { Document(<<PathItem(<<"/", "{", "i", "}">>, {GET}, o, l)>>) :
        o \in ParameterLists(MaxParams), l \in ParameterLists(MaxParams) }

\* the values of n elements "1" joined by delimiters
RECURSIVE DelimitedValues(_, _)
DelimitedValues(delimiters, n) ==
    IF n = 0 THEN {<<>>}
    ELSE IF n = 1 THEN {<<"1">>}
    ELSE { v \o <<d, "1">> : v \in DelimitedValues(delimiters, n - 1), d \in delimiters }

ValuesUpTo(delimiters, n) == UNION { DelimitedValues(delimiters, k) : k \in 0..n }

\* the raw value of a in a query string, and the pairs that may follow it
RawValues == ValuesUpTo({",", "|", " ", "%20", "%7C"}, MaxElems)

MorePairs == { <<>>, <<"&", "a", "=", "1">>, <<"&", "b", "=", "1", "|", "1">> }

QueryStrings == { <<"a", "=">> \o v \o m : v \in RawValues, m \in MorePairs }

\* the value of a in a structured query, and the other keys it may hold
ObjectValues ==
    { Str(v) : v \in ValuesUpTo({",", "|", " "}, MaxElems) }
        \cup { Arr(<<<<"1">>>>), Arr(<<<<"1">>, <<"1", "|", "1">>>>) }

QueryObjects ==
    { Put(EmptyObject, <<"a">>, v) : v \in ObjectValues }
        \cup { Put(Put(EmptyObject, <<"a">>, v), <<"b">>, Str(<<"1", "|", "1">>)) :
                 v \in ObjectValues }

CookieHeader ==
    [name |-> <<"C", "o", "o", "k", "i", "e">>,
     value |-> Str(<<"c", "=", "1", ";", " ", "d", "=", "1">>)]

JsonBody == [kind |-> "string", text |-> "{\"x\":1}"]
TextBody == [kind |-> "string", text |-> "not json"]

ParseRequests ==
    { Request(<<"G", "E", "T">>, <<"/", "a", "?">> \o q, <<CookieHeader>>, NoQuery, JsonBody) :
        q \in QueryStrings }
        \cup
    { Request(<<"G", "E", "T">>, <<"/", "a">>, <<>>, ObjectQuery(o), TextBody) :
        o \in QueryObjects }
        \cup
    { Request(<<"G", "E", "T">>, p, <<>>, StringQuery(<<"a", "=", "1", "|", "1">>), NoBody) :
        p \in { <<"/", "a">>, <<"/", "a", "?", "a", "=", "1">> } }

InitParse == Construct(ParseDocuments, {<<>>}, ParseRequests)

NextParse == \E operation \in OperationArguments : ParseRequest(operation)

SpecParse == InitParse /\ [][NextParse]_vars

(***************************************************************************)
(* Request normalizer: claim C6, under SpecNorm.                           *)
(***************************************************************************)
\* C6: normalizeRequest is idempotent: normalizing the request that normalizeRequest
\* returned gives that request back, path and method.
C6_NormalizeIdempotent ==
    call.name = "renormalize" =>
        /\ ret.req.path = req.path
        /\ ret.req.method = req.method

(***************************************************************************)
(* Parameter parser: claims C5, C7 and C9, under SpecParse.                *)
(***************************************************************************)
Parsed == call.name = "parseRequest"
ParsedWith == Parsed /\ call.operation.kind = "operation"

\* the keys of the query of the request as passed in
PresentKeys ==
    IF reqIn.query.kind = "object" THEN DOMAIN reqIn.query.obj
    ELSE DOMAIN parseQuery(queryStringOf(reqIn.path), FALSE)

NonExploded(p) == p.in = "query" /\ p.explode = FALSE

Declarations(d) == {d.parameters[i] : i \in DOMAIN d.parameters}

\* C5: a query parameter the operation declares with explode: false and the request
\* carries, in a query string or in a structured query, is an array in the result.
C5_NonExplodedIsArray ==
    ParsedWith =>
        \A p \in Declarations(call.operation.op) :
            (NonExploded(p) /\ p.name \in PresentKeys) =>
                /\ ret.kind = "parsed"
                /\ ret.parsed.query[p.name].t = "array"

\* no name and location is declared twice in the descriptor
NoDuplicates(d) ==
    \A i, j \in DOMAIN d.parameters :
        i # j => \/ d.parameters[i].name # d.parameters[j].name
                 \/ d.parameters[i].in # d.parameters[j].in

\* C5 holds of every descriptor in which no parameter is declared twice.
C5_ArrayWithoutDuplicates ==
    (ParsedWith /\ NoDuplicates(call.operation.op)) =>
        \A p \in Declarations(call.operation.op) :
            (NonExploded(p) /\ p.name \in PresentKeys) =>
                /\ ret.kind = "parsed"
                /\ ret.parsed.query[p.name].t = "array"

\* the path item and the operation object a descriptor was built from
ItemOf(d) ==
    definition.paths[CHOOSE i \in DOMAIN definition.paths : definition.paths[i].path = d.path]

\* the operation's parameters, then the path item's that the operation does not
\* declare itself
PrecedenceParameters(d) ==
    LET own == ItemOf(d).ops[d.method].parameters
    IN  own \o SelectSeq(ItemOf(d).parameters,
                         LAMBDA p : \A i \in DOMAIN own :
                                        own[i].name # p.name \/ own[i].in # p.in)

\* C7: a path-level declaration of a name and location the operation declares itself
\* has no effect: parseRequest gives what it gives for the descriptor without it.
C7_OperationLevelPrecedence ==
    ParsedWith =>
        ret = parseRequest(apiRoot, reqIn,
                           [kind |-> "operation",
                            op |-> [call.operation.op EXCEPT
                                      !.parameters = PrecedenceParameters(call.operation.op)]])

NonExplodedOf(d, k) == SelectSeq(d.parameters, LAMBDA p : NonExploded(p) /\ p.name = k)

StyleDelimiter(style) ==
    CASE style = "spaceDelimited" -> " "
      [] style = "pipeDelimited" -> "|"
      [] OTHER -> ","

Init == InitParse

Next ==
    \/ \E strict \in BOOLEAN : MatchOperation(strict)
    \/ GetOperations
    \/ \E operationId \in {"read", "write"} : GetOperation(operationId)
    \/ NormalizeRequest
    \/ \E operation \in OperationArguments : ParseRequest(operation)

Spec == Init /\ [][Next]_vars

\* C8: no call changes the contract document or the request value the caller passed.
C8_InputsUnchanged ==
    /\ definition = defIn
    /\ req = reqIn

====
